---- MODULE Spec2Model ----
(***************************************************************************)
(* Model of the text OT core of ot-rs (src/src/core/text.rs).              *)
(*                                                                         *)
(* A string is a sequence of Unicode scalar values, so Len counts code     *)
(* points exactly as str.chars().count() does.  A TextOperation is the     *)
(* record [ops, base_length, after_length] of the Rust struct.             *)
(***************************************************************************)
EXTENDS Integers, Sequences, FiniteSets, TLC

VARIABLES
    base,             \* the base string handed to apply / invert
    opA,              \* the first operation (self)
    opB,              \* the second operation (operation2 / other)
    res,              \* what the last call returned, None before any call
    walk,             \* the loop of a compose / transform call in progress
    raw,              \* the builder calls so far, read one call at a time
    overflow_checks   \* whether the build panics on integer overflow

vars == <<base, opA, opB, res, walk, raw, overflow_checks>>

(* ------------------------------ bounds --------------------------------- *)
\* Largest base_length / after_length built in the one-operation runs.
MaxLen == 3
\* Largest base_length / after_length built in the two-operation runs.
MaxPairLen == 2

\* Bits of the machine word that stands for usize.
UsizeBits == 3
\* Most atoms of an operation built from arbitrary machine integers.
MaxAtoms == 3

\* The code points strings are drawn from.
Chars == {"a", "b"}

Strings(n) == UNION {[1..k -> Chars] : k \in 0..n}

StringsOfLen(n) == [1..n -> Chars]

(* ------------------------------- usize --------------------------------- *)
UsizeMax == 2 ^ UsizeBits - 1

\* a + b leaves the range of usize: a panic with overflow checks, a wrap-around
\* without.
overflows(a, b) == a + b > UsizeMax

wrapping_add(a, b) == (a + b) % (UsizeMax + 1)

(* ------------------------- Operation (atoms) --------------------------- *)
Retain(n) == [t |-> "Retain", n |-> n]

Insert(s) == [t |-> "Insert", s |-> s]

Delete(n) == [t |-> "Delete", n |-> n]

isRetain(op) == op.t = "Retain"

isInsert(op) == op.t = "Insert"

isDelete(op) == op.t = "Delete"

(* ---------------------------- Result values ---------------------------- *)
Ok(v) == [ok |-> TRUE, val |-> v]

Err(e) == [ok |-> FALSE, err |-> e]

\* A panic of the Rust runtime (unwrap on an exhausted iterator).
Panic == [ok |-> FALSE, err |-> "panic"]

(* ---------------------------- TextOperation ---------------------------- *)
new == [ops |-> <<>>, base_length |-> 0, after_length |-> 0]

last(ops) == ops[Len(ops)]

setLast(ops, op) == [ops EXCEPT ![Len(ops)] = op]

\* Mutant of retain: the result length is not counted.
retainForgetsAfterLength(self, n) ==
    IF n = 0 THEN self
    ELSE LET counted == [self EXCEPT !.base_length = wrapping_add(@, n)]
         IN  IF self.ops # <<>> /\ isRetain(last(self.ops))
             THEN [counted EXCEPT
                     !.ops = setLast(@, Retain(wrapping_add(last(self.ops).n, n)))]
             ELSE [counted EXCEPT !.ops = Append(@, Retain(n))]

retain(self, n) ==
    IF n = 0 THEN self
    ELSE LET counted == [self EXCEPT !.base_length = wrapping_add(@, n),
                                     !.after_length = wrapping_add(@, n)]
         IN  IF self.ops # <<>> /\ isRetain(last(self.ops))
             THEN [counted EXCEPT
                     !.ops = setLast(@, Retain(wrapping_add(last(self.ops).n, n)))]
             ELSE [counted EXCEPT !.ops = Append(@, Retain(n))]

\* Mutant of insert: an Insert arriving after a Delete is appended behind it.
insertAppendsAfterDelete(self, str) ==
    IF str = <<>> THEN self
    ELSE LET counted == [self EXCEPT !.after_length = wrapping_add(@, Len(str))]
             ops == self.ops
             k == Len(ops)
         IN  IF k > 0 /\ isInsert(ops[k])
             THEN [counted EXCEPT !.ops = setLast(@, Insert(ops[k].s \o str))]
             ELSE [counted EXCEPT !.ops = Append(@, Insert(str))]

\* Mutant of insert: after I(s), D(x) the new text is not merged into I(s) but
\* becomes an atom of its own before the Delete.
insertNeverMergesAcrossDelete(self, str) ==
    IF str = <<>> THEN self
    ELSE LET counted == [self EXCEPT !.after_length = wrapping_add(@, Len(str))]
             ops == self.ops
             k == Len(ops)
         IN  IF k > 0 /\ isInsert(ops[k])
             THEN [counted EXCEPT !.ops = setLast(@, Insert(ops[k].s \o str))]
             ELSE IF k > 0 /\ isDelete(ops[k])
             THEN [counted EXCEPT
                     !.ops = Append(setLast(@, Insert(str)), ops[k])]
             ELSE [counted EXCEPT !.ops = Append(@, Insert(str))]

\* Mutant of insert: text merged into the Insert before a Delete is put in
\* front of the text already there.
insertMergesInFront(self, str) ==
    IF str = <<>> THEN self
    ELSE LET counted == [self EXCEPT !.after_length = wrapping_add(@, Len(str))]
             ops == self.ops
             k == Len(ops)
         IN  IF k > 0 /\ isInsert(ops[k])
             THEN [counted EXCEPT !.ops = setLast(@, Insert(ops[k].s \o str))]
             ELSE IF k > 0 /\ isDelete(ops[k])
             THEN IF k > 1 /\ isInsert(ops[k - 1])
                  THEN [counted EXCEPT
                          !.ops[k - 1] = Insert(str \o ops[k - 1].s)]
                  ELSE [counted EXCEPT
                          !.ops = Append(setLast(@, Insert(str)), ops[k])]
             ELSE [counted EXCEPT !.ops = Append(@, Insert(str))]

insert(self, str) ==
    IF str = <<>> THEN self
    ELSE LET counted == [self EXCEPT !.after_length = wrapping_add(@, Len(str))]
             ops == self.ops
             k == Len(ops)
         IN  IF k > 0 /\ isInsert(ops[k])
             THEN [counted EXCEPT !.ops = setLast(@, Insert(ops[k].s \o str))]
             ELSE IF k > 0 /\ isDelete(ops[k])
             THEN IF k > 1 /\ isInsert(ops[k - 1])
                  THEN [counted EXCEPT
                          !.ops[k - 1] = Insert(ops[k - 1].s \o str)]
                  ELSE [counted EXCEPT
                          !.ops = Append(setLast(@, Insert(str)), ops[k])]
             ELSE [counted EXCEPT !.ops = Append(@, Insert(str))]

\* Mutant of delete: the count is added to after_length too, as retain does.
deleteCountsAfterLength(self, n) ==
    IF n = 0 THEN self
    ELSE LET counted == [self EXCEPT !.base_length = wrapping_add(@, n),
                                     !.after_length = wrapping_add(@, n)]
         IN  IF self.ops # <<>> /\ isDelete(last(self.ops))
             THEN [counted EXCEPT
                     !.ops = setLast(@, Delete(wrapping_add(last(self.ops).n, n)))]
             ELSE [counted EXCEPT !.ops = Append(@, Delete(n))]

delete(self, n) ==
    IF n = 0 THEN self
    ELSE LET counted == [self EXCEPT !.base_length = wrapping_add(@, n)]
         IN  IF self.ops # <<>> /\ isDelete(last(self.ops))
             THEN [counted EXCEPT
                     !.ops = setLast(@, Delete(wrapping_add(last(self.ops).n, n)))]
             ELSE [counted EXCEPT !.ops = Append(@, Delete(n))]

\* impl PartialEq: the counters, the number of atoms, then the atoms pairwise.
eq(self, other) ==
    IF self.base_length # other.base_length THEN FALSE
    ELSE IF self.after_length # other.after_length THEN FALSE
    ELSE IF Len(self.ops) # Len(other.ops) THEN FALSE
    ELSE Cardinality({i \in 1..Len(self.ops) : self.ops[i] # other.ops[i]}) = 0

is_noop(self) ==
    \/ Len(self.ops) = 0
    \/ Len(self.ops) = 1 /\ isRetain(self.ops[1])

(* --------------------------- Chars helpers ----------------------------- *)
\* An iterator is the sequence of code points it has still to yield; next()
\* on an exhausted iterator returns None and the unwrap panics.
chars_take(chars, n) ==
    IF n > Len(chars)
    THEN [panic |-> TRUE, str |-> <<>>, rest |-> <<>>]
    ELSE [panic |-> FALSE,
          str |-> SubSeq(chars, 1, n),
          rest |-> SubSeq(chars, n + 1, Len(chars))]

chars_skip(chars, n) ==
    IF n > Len(chars)
    THEN [panic |-> TRUE, rest |-> <<>>]
    ELSE [panic |-> FALSE, rest |-> SubSeq(chars, n + 1, Len(chars))]

chars_tail(chars, skip) ==
    LET skipped == chars_skip(chars, skip)
    IN  [panic |-> skipped.panic, str |-> skipped.rest]

(* ------------------------------- apply --------------------------------- *)
\* The test `cursor + n > base_len` of apply and invert: the sum is a usize, so
\* it panics when it overflows under overflow checks and wraps around without
\* them.  The value is what the loop goes on as: "run", the error, or "panic".
more_left(cursor, n, base_len) ==
    IF overflow_checks /\ overflows(cursor, n) THEN "panic"
    ELSE IF wrapping_add(cursor, n) > base_len THEN "OperationMoreLeftString"
    ELSE "run"

\* One iteration of the for loop of apply.  st.out is "run" while the loop
\* goes on, and the error or "panic" that ended it otherwise.
applyOp(st, op, base_len) ==
    IF isRetain(op)
    THEN IF more_left(st.cursor, op.n, base_len) # "run"
         THEN [st EXCEPT !.out = more_left(st.cursor, op.n, base_len)]
         ELSE LET taken == chars_take(st.base_chars, op.n)
              IN  IF taken.panic
                  THEN [st EXCEPT !.out = "panic"]
                  ELSE [st EXCEPT !.buffer = @ \o taken.str,
                                  !.base_chars = taken.rest,
                                  !.cursor = wrapping_add(@, op.n)]
    ELSE IF isInsert(op)
    THEN [st EXCEPT !.buffer = @ \o op.s]
    ELSE IF more_left(st.cursor, op.n, base_len) # "run"
         THEN [st EXCEPT !.out = more_left(st.cursor, op.n, base_len)]
         ELSE LET skipped == chars_skip(st.base_chars, op.n)
              IN  IF skipped.panic
                  THEN [st EXCEPT !.out = "panic"]
                  ELSE [st EXCEPT !.base_chars = skipped.rest,
                                  !.cursor = wrapping_add(@, op.n)]

RECURSIVE applyLoop(_, _, _, _)
applyLoop(ops, i, st, base_len) ==
    IF st.out # "run" THEN st
    ELSE IF i > Len(ops) THEN st
    ELSE applyLoop(ops, i + 1, applyOp(st, ops[i], base_len), base_len)

\* Mutant of apply: the length of the base string is not compared first.
applyWithoutLengthCheck(self, str) ==
    LET base_len == Len(str)
        st == applyLoop(self.ops, 1,
                        [base_chars |-> str, buffer |-> <<>>,
                         cursor |-> 0, out |-> "run"],
                        base_len)
    IN  IF st.out = "run" THEN Ok(st.buffer)
        ELSE IF st.out = "panic" THEN Panic
        ELSE Err(st.out)

apply(self, str) ==
    LET base_len == Len(str)
    IN  IF base_len # self.base_length
        THEN Err("OperationApplyStringNotCompatible")
        ELSE LET st == applyLoop(self.ops, 1,
                                 [base_chars |-> str, buffer |-> <<>>,
                                  cursor |-> 0, out |-> "run"],
                                 base_len)
             IN  IF st.out = "run" THEN Ok(st.buffer)
                 ELSE IF st.out = "panic" THEN Panic
                 ELSE Err(st.out)

(* ------------------------------- invert -------------------------------- *)
\* Mutant of invertOp: a Retain does not advance the base iterator.
invertOpRetainKeepsIterator(st, op, base_len) ==
    IF isRetain(op)
    THEN IF more_left(st.cursor, op.n, base_len) # "run"
         THEN [st EXCEPT !.out = more_left(st.cursor, op.n, base_len)]
         ELSE [st EXCEPT !.inverse = retain(@, op.n),
                         !.cursor = wrapping_add(@, op.n)]
    ELSE IF isInsert(op)
    THEN [st EXCEPT !.inverse = delete(@, Len(op.s))]
    ELSE IF more_left(st.cursor, op.n, base_len) # "run"
         THEN [st EXCEPT !.out = more_left(st.cursor, op.n, base_len)]
         ELSE LET taken == chars_take(st.base_chars, op.n)
              IN  IF taken.panic
                  THEN [st EXCEPT !.out = "panic"]
                  ELSE [st EXCEPT !.inverse = insert(@, taken.str),
                                  !.base_chars = taken.rest,
                                  !.cursor = wrapping_add(@, op.n)]

\* Mutant of invertOp: an Insert is undone by deleting one code point, whatever
\* the length of the inserted text.
invertOpDeletesOne(st, op, base_len) ==
    IF isRetain(op)
    THEN IF more_left(st.cursor, op.n, base_len) # "run"
         THEN [st EXCEPT !.out = more_left(st.cursor, op.n, base_len)]
         ELSE LET skipped == chars_skip(st.base_chars, op.n)
              IN  IF skipped.panic
                  THEN [st EXCEPT !.out = "panic"]
                  ELSE [st EXCEPT !.inverse = retain(@, op.n),
                                  !.cursor = wrapping_add(@, op.n),
                                  !.base_chars = skipped.rest]
    ELSE IF isInsert(op)
    THEN [st EXCEPT !.inverse = delete(@, 1)]
    ELSE IF more_left(st.cursor, op.n, base_len) # "run"
         THEN [st EXCEPT !.out = more_left(st.cursor, op.n, base_len)]
         ELSE LET taken == chars_take(st.base_chars, op.n)
              IN  IF taken.panic
                  THEN [st EXCEPT !.out = "panic"]
                  ELSE [st EXCEPT !.inverse = insert(@, taken.str),
                                  !.base_chars = taken.rest,
                                  !.cursor = wrapping_add(@, op.n)]

\* One iteration of the for loop of invert.
invertOp(st, op, base_len) ==
    IF isRetain(op)
    THEN IF more_left(st.cursor, op.n, base_len) # "run"
         THEN [st EXCEPT !.out = more_left(st.cursor, op.n, base_len)]
         ELSE LET skipped == chars_skip(st.base_chars, op.n)
              IN  IF skipped.panic
                  THEN [st EXCEPT !.out = "panic"]
                  ELSE [st EXCEPT !.inverse = retain(@, op.n),
                                  !.cursor = wrapping_add(@, op.n),
                                  !.base_chars = skipped.rest]
    ELSE IF isInsert(op)
    THEN [st EXCEPT !.inverse = delete(@, Len(op.s))]
    ELSE IF more_left(st.cursor, op.n, base_len) # "run"
         THEN [st EXCEPT !.out = more_left(st.cursor, op.n, base_len)]
         ELSE LET taken == chars_take(st.base_chars, op.n)
              IN  IF taken.panic
                  THEN [st EXCEPT !.out = "panic"]
                  ELSE [st EXCEPT !.inverse = insert(@, taken.str),
                                  !.base_chars = taken.rest,
                                  !.cursor = wrapping_add(@, op.n)]

RECURSIVE invertLoop(_, _, _, _)
invertLoop(ops, i, st, base_len) ==
    IF st.out # "run" THEN st
    ELSE IF i > Len(ops) THEN st
    ELSE invertLoop(ops, i + 1, invertOp(st, ops[i], base_len), base_len)

invert(self, str) ==
    LET base_len == Len(str)
    IN  IF base_len # self.base_length
        THEN Err("OperationApplyStringNotCompatible")
        ELSE LET st == invertLoop(self.ops, 1,
                                  [base_chars |-> str, inverse |-> new,
                                   cursor |-> 0, out |-> "run"],
                                  base_len)
             IN  IF st.out = "run" THEN Ok(st.inverse)
                 ELSE IF st.out = "panic" THEN Panic
                 ELSE Err(st.out)

(* ------------------------------- compose ------------------------------- *)
\* The loop of compose holds two atom streams: ops1 / ops2 are the atoms still
\* to read, the head being the residual atom (tmp) when the previous iteration
\* consumed only part of it; an exhausted stream (None) is the empty sequence.
\* pc is "loop" while the loop runs, "done" after the break, or the error.

\* R, R
composeRetainRetain(st) ==
    LET n1 == Head(st.ops1).n
        n2 == Head(st.ops2).n
    IN  IF n1 > n2
        THEN [st EXCEPT !.composed = retain(@, n2),
                        !.ops1 = <<Retain(n1 - n2)>> \o Tail(@),
                        !.ops2 = Tail(@)]
        ELSE IF n1 = n2
        THEN [st EXCEPT !.composed = retain(@, n1),
                        !.ops1 = Tail(@),
                        !.ops2 = Tail(@)]
        ELSE [st EXCEPT !.composed = retain(@, n1),
                        !.ops2 = <<Retain(n2 - n1)>> \o Tail(@),
                        !.ops1 = Tail(@)]

\* I, D
composeInsertDelete(st) ==
    LET s1 == Head(st.ops1).s
        n2 == Head(st.ops2).n
        l1 == Len(s1)
    IN  IF l1 > n2
        THEN [st EXCEPT !.ops1 = <<Insert(chars_tail(s1, n2).str)>> \o Tail(@),
                        !.ops2 = Tail(@)]
        ELSE IF l1 = n2
        THEN [st EXCEPT !.ops1 = Tail(@),
                        !.ops2 = Tail(@)]
        ELSE [st EXCEPT !.ops1 = Tail(@),
                        !.ops2 = <<Delete(n2 - l1)>> \o Tail(@)]

\* Mutant of composeInsertRetain: the residual Insert keeps the whole string
\* instead of the part behind the retained prefix.
composeInsertRetainKeepsWhole(st) ==
    LET s1 == Head(st.ops1).s
        n2 == Head(st.ops2).n
        l1 == Len(s1)
    IN  IF l1 > n2
        THEN [st EXCEPT !.composed = insert(@, chars_take(s1, n2).str),
                        !.ops1 = <<Insert(s1)>> \o Tail(@),
                        !.ops2 = Tail(@)]
        ELSE IF l1 = n2
        THEN [st EXCEPT !.composed = insert(@, s1),
                        !.ops1 = Tail(@),
                        !.ops2 = Tail(@)]
        ELSE [st EXCEPT !.composed = insert(@, s1),
                        !.ops2 = <<Retain(n2 - l1)>> \o Tail(@),
                        !.ops1 = Tail(@)]

\* I, R
composeInsertRetain(st) ==
    LET s1 == Head(st.ops1).s
        n2 == Head(st.ops2).n
        l1 == Len(s1)
    IN  IF l1 > n2
        THEN LET first == chars_take(s1, n2)
                 second == chars_take(first.rest, l1 - n2)
             IN  [st EXCEPT !.composed = insert(@, first.str),
                            !.ops1 = <<Insert(second.str)>> \o Tail(@),
                            !.ops2 = Tail(@)]
        ELSE IF l1 = n2
        THEN [st EXCEPT !.composed = insert(@, s1),
                        !.ops1 = Tail(@),
                        !.ops2 = Tail(@)]
        ELSE [st EXCEPT !.composed = insert(@, s1),
                        !.ops2 = <<Retain(n2 - l1)>> \o Tail(@),
                        !.ops1 = Tail(@)]

\* Mutant of composeRetainDelete: when the Retain is the longer atom the arm
\* consumes nothing and emits nothing.
composeRetainDeleteKeepsStreams(st) ==
    LET n1 == Head(st.ops1).n
        n2 == Head(st.ops2).n
    IN  IF n1 > n2
        THEN st
        ELSE IF n1 = n2
        THEN [st EXCEPT !.composed = delete(@, n2),
                        !.ops1 = Tail(@),
                        !.ops2 = Tail(@)]
        ELSE [st EXCEPT !.composed = delete(@, n1),
                        !.ops2 = <<Delete(n2 - n1)>> \o Tail(@),
                        !.ops1 = Tail(@)]

\* R, D
composeRetainDelete(st) ==
    LET n1 == Head(st.ops1).n
        n2 == Head(st.ops2).n
    IN  IF n1 > n2
        THEN [st EXCEPT !.composed = delete(@, n2),
                        !.ops1 = <<Retain(n1 - n2)>> \o Tail(@),
                        !.ops2 = Tail(@)]
        ELSE IF n1 = n2
        THEN [st EXCEPT !.composed = delete(@, n2),
                        !.ops1 = Tail(@),
                        !.ops2 = Tail(@)]
        ELSE [st EXCEPT !.composed = delete(@, n1),
                        !.ops2 = <<Delete(n2 - n1)>> \o Tail(@),
                        !.ops1 = Tail(@)]

\* One iteration of the loop: the match arms in the order of the source.
composeStep(st) ==
    LET ops1 == st.ops1
        ops2 == st.ops2
    IN  IF ops1 = <<>> /\ ops2 = <<>>
        THEN [st EXCEPT !.pc = "done"]
        ELSE IF ops1 # <<>> /\ isDelete(Head(ops1))
        THEN [st EXCEPT !.composed = delete(@, Head(ops1).n),
                        !.ops1 = Tail(@)]
        ELSE IF ops2 # <<>> /\ isInsert(Head(ops2))
        THEN [st EXCEPT !.composed = insert(@, Head(ops2).s),
                        !.ops2 = Tail(@)]
        ELSE IF ops1 = <<>>
        THEN [st EXCEPT !.pc = "ComposeFirstTooShort"]
        ELSE IF ops2 = <<>>
        THEN [st EXCEPT !.pc = "ComposeFirstTooLong"]
        ELSE IF isRetain(Head(ops1)) /\ isRetain(Head(ops2))
        THEN composeRetainRetain(st)
        ELSE IF isInsert(Head(ops1)) /\ isDelete(Head(ops2))
        THEN composeInsertDelete(st)
        ELSE IF isInsert(Head(ops1)) /\ isRetain(Head(ops2))
        THEN composeInsertRetain(st)
        ELSE composeRetainDelete(st)

RECURSIVE composeLoop(_)
composeLoop(st) ==
    IF st.pc # "loop" THEN st ELSE composeLoop(composeStep(st))

\* Mutant of compose: the lengths of the two operations are not compared first.
composeWithoutLengthCheck(self, operation2) ==
    LET st == composeLoop([ops1 |-> self.ops, ops2 |-> operation2.ops,
                           composed |-> new, pc |-> "loop"])
    IN  IF st.pc = "done" THEN Ok(st.composed) ELSE Err(st.pc)

compose(self, operation2) ==
    IF self.after_length # operation2.base_length
    THEN Err("SecondBaseLengthNotEqualFirstAfterLength")
    ELSE LET st == composeLoop([ops1 |-> self.ops, ops2 |-> operation2.ops,
                                composed |-> new, pc |-> "loop"])
         IN  IF st.pc = "done" THEN Ok(st.composed) ELSE Err(st.pc)

(* ------------------------------ heuristics ----------------------------- *)
first_cursor(self) ==
    IF self.ops # <<>> /\ isRetain(self.ops[1]) THEN self.ops[1].n ELSE 0

\* Mutant of get_simple_operation: of two atoms the first is always returned.
get_simple_operationTakesFirst(self) ==
    LET ops == self.ops
    IN  IF Len(ops) = 1 THEN Ok(ops[1])
        ELSE IF Len(ops) = 2 /\ isRetain(ops[1]) THEN Ok(ops[1])
        ELSE IF Len(ops) = 2 /\ isRetain(ops[2]) THEN Ok(ops[1])
        ELSE IF Len(ops) = 3 /\ isRetain(ops[1]) /\ isRetain(ops[3])
        THEN Ok(ops[2])
        ELSE Err("None")

\* Option<&Operation>: Ok(atom) is Some(atom), Err("None") is None.
get_simple_operation(self) ==
    LET ops == self.ops
    IN  IF Len(ops) = 1 THEN Ok(ops[1])
        ELSE IF Len(ops) = 2 /\ isRetain(ops[1]) THEN Ok(ops[2])
        ELSE IF Len(ops) = 2 /\ isRetain(ops[2]) THEN Ok(ops[1])
        ELSE IF Len(ops) = 3 /\ isRetain(ops[1]) /\ isRetain(ops[3])
        THEN Ok(ops[2])
        ELSE Err("None")

should_be_composed_with(self, other) ==
    IF is_noop(self) \/ is_noop(other) THEN TRUE
    ELSE LET a_first_cursor == first_cursor(self)
             b_first_cursor == first_cursor(other)
             a_sample == get_simple_operation(self)
             b_sample == get_simple_operation(other)
         IN  IF ~a_sample.ok \/ ~b_sample.ok THEN FALSE
             ELSE IF isInsert(a_sample.val) /\ isInsert(b_sample.val)
             THEN Len(a_sample.val.s) + a_first_cursor = b_first_cursor
             ELSE IF isDelete(a_sample.val) /\ isDelete(b_sample.val)
             THEN \/ b_first_cursor + b_sample.val.n = a_first_cursor
                  \/ a_first_cursor = b_first_cursor
             ELSE FALSE

should_be_composed_with_inverted(self, other) ==
    IF is_noop(self) \/ is_noop(other) THEN TRUE
    ELSE LET a_first_cursor == first_cursor(self)
             b_first_cursor == first_cursor(other)
             a_sample == get_simple_operation(self)
             b_sample == get_simple_operation(other)
         IN  IF ~a_sample.ok \/ ~b_sample.ok THEN FALSE
             ELSE IF isInsert(a_sample.val) /\ isInsert(b_sample.val)
             THEN \/ a_first_cursor + Len(a_sample.val.s) = b_first_cursor
                  \/ a_first_cursor = b_first_cursor
             ELSE IF isDelete(a_sample.val) /\ isDelete(b_sample.val)
             THEN b_first_cursor - b_sample.val.n = a_first_cursor
             ELSE FALSE

(* ------------------------------ transform ------------------------------ *)
\* The loop state is as in compose, with the two outputs operation1prime and
\* operation2prime.

\* R, R
transformRetainRetain(st) ==
    LET n1 == Head(st.ops1).n
        n2 == Head(st.ops2).n
        min_n == IF n1 > n2 THEN n2 ELSE IF n1 = n2 THEN n2 ELSE n1
        moved == IF n1 > n2
                 THEN [st EXCEPT !.ops1 = <<Retain(n1 - n2)>> \o Tail(@),
                                 !.ops2 = Tail(@)]
                 ELSE IF n1 = n2
                 THEN [st EXCEPT !.ops1 = Tail(@), !.ops2 = Tail(@)]
                 ELSE [st EXCEPT !.ops1 = Tail(@),
                                 !.ops2 = <<Retain(n2 - n1)>> \o Tail(@)]
    IN  [moved EXCEPT !.operation1prime = retain(@, min_n),
                      !.operation2prime = retain(@, min_n)]

\* Mutant of transformDeleteDelete: the span both sides delete is deleted
\* again by operation1prime.
transformDeleteDeleteEmits(st) ==
    LET n1 == Head(st.ops1).n
        n2 == Head(st.ops2).n
        min_n == IF n1 > n2 THEN n2 ELSE n1
        moved == IF n1 > n2
                 THEN [st EXCEPT !.ops1 = <<Delete(n1 - n2)>> \o Tail(@),
                                 !.ops2 = Tail(@)]
                 ELSE IF n1 = n2
                 THEN [st EXCEPT !.ops1 = Tail(@), !.ops2 = Tail(@)]
                 ELSE [st EXCEPT !.ops1 = Tail(@),
                                 !.ops2 = <<Delete(n2 - n1)>> \o Tail(@)]
    IN  [moved EXCEPT !.operation1prime = delete(@, min_n)]

\* D, D
transformDeleteDelete(st) ==
    LET n1 == Head(st.ops1).n
        n2 == Head(st.ops2).n
    IN  IF n1 > n2
        THEN [st EXCEPT !.ops1 = <<Delete(n1 - n2)>> \o Tail(@),
                        !.ops2 = Tail(@)]
        ELSE IF n1 = n2
        THEN [st EXCEPT !.ops1 = Tail(@), !.ops2 = Tail(@)]
        ELSE [st EXCEPT !.ops1 = Tail(@),
                        !.ops2 = <<Delete(n2 - n1)>> \o Tail(@)]

\* Mutant of transformDeleteRetain: the Delete goes to operation2prime.
transformDeleteRetainWrongPrime(st) ==
    LET n1 == Head(st.ops1).n
        n2 == Head(st.ops2).n
        min_n == IF n1 > n2 THEN n2 ELSE IF n1 = n2 THEN n2 ELSE n1
        moved == IF n1 > n2
                 THEN [st EXCEPT !.ops1 = <<Delete(n1 - n2)>> \o Tail(@),
                                 !.ops2 = Tail(@)]
                 ELSE IF n1 = n2
                 THEN [st EXCEPT !.ops1 = Tail(@), !.ops2 = Tail(@)]
                 ELSE [st EXCEPT !.ops1 = Tail(@),
                                 !.ops2 = <<Retain(n2 - n1)>> \o Tail(@)]
    IN  [moved EXCEPT !.operation2prime = delete(@, min_n)]

\* D, R
transformDeleteRetain(st) ==
    LET n1 == Head(st.ops1).n
        n2 == Head(st.ops2).n
        min_n == IF n1 > n2 THEN n2 ELSE IF n1 = n2 THEN n2 ELSE n1
        moved == IF n1 > n2
                 THEN [st EXCEPT !.ops1 = <<Delete(n1 - n2)>> \o Tail(@),
                                 !.ops2 = Tail(@)]
                 ELSE IF n1 = n2
                 THEN [st EXCEPT !.ops1 = Tail(@), !.ops2 = Tail(@)]
                 ELSE [st EXCEPT !.ops1 = Tail(@),
                                 !.ops2 = <<Retain(n2 - n1)>> \o Tail(@)]
    IN  [moved EXCEPT !.operation1prime = delete(@, min_n)]

\* Mutant of transformRetainDelete: the Delete is pushed onto the atoms of
\* operation2prime directly instead of going through the builder.
transformRetainDeletePushesAtom(st) ==
    LET n1 == Head(st.ops1).n
        n2 == Head(st.ops2).n
        min_n == IF n1 > n2 THEN n2 ELSE IF n1 = n2 THEN n2 ELSE n1
        moved == IF n1 > n2
                 THEN [st EXCEPT !.ops1 = <<Retain(n1 - n2)>> \o Tail(@),
                                 !.ops2 = Tail(@)]
                 ELSE IF n1 = n2
                 THEN [st EXCEPT !.ops1 = Tail(@), !.ops2 = Tail(@)]
                 ELSE [st EXCEPT !.ops1 = Tail(@),
                                 !.ops2 = <<Delete(n2 - n1)>> \o Tail(@)]
    IN  [moved EXCEPT !.operation2prime.ops = Append(@, Delete(min_n))]

\* R, D
transformRetainDelete(st) ==
    LET n1 == Head(st.ops1).n
        n2 == Head(st.ops2).n
        min_n == IF n1 > n2 THEN n2 ELSE IF n1 = n2 THEN n2 ELSE n1
        moved == IF n1 > n2
                 THEN [st EXCEPT !.ops1 = <<Retain(n1 - n2)>> \o Tail(@),
                                 !.ops2 = Tail(@)]
                 ELSE IF n1 = n2
                 THEN [st EXCEPT !.ops1 = Tail(@), !.ops2 = Tail(@)]
                 ELSE [st EXCEPT !.ops1 = Tail(@),
                                 !.ops2 = <<Delete(n2 - n1)>> \o Tail(@)]
    IN  [moved EXCEPT !.operation2prime = delete(@, min_n)]

\* I, _
transformInsert1(st) ==
    LET str1 == Head(st.ops1).s
    IN  [st EXCEPT !.operation1prime = insert(@, str1),
                   !.operation2prime = retain(@, Len(str1)),
                   !.ops1 = Tail(@)]

\* Mutant of transformInsert2: operation1prime does not retain the text the
\* second operation inserts.
transformInsert2ForgetsRetain(st) ==
    LET str2 == Head(st.ops2).s
    IN  [st EXCEPT !.operation2prime = insert(@, str2),
                   !.ops2 = Tail(@)]

\* _, I
transformInsert2(st) ==
    LET str2 == Head(st.ops2).s
    IN  [st EXCEPT !.operation1prime = retain(@, Len(str2)),
                   !.operation2prime = insert(@, str2),
                   !.ops2 = Tail(@)]

\* Mutant of transformStep: the Insert of the second operation is matched
\* before the Insert of the first.
transformStepSecondInsertFirst(st) ==
    LET ops1 == st.ops1
        ops2 == st.ops2
    IN  IF ops1 = <<>> /\ ops2 = <<>>
        THEN [st EXCEPT !.pc = "done"]
        ELSE IF ops2 # <<>> /\ isInsert(Head(ops2))
        THEN transformInsert2(st)
        ELSE IF ops1 # <<>> /\ isInsert(Head(ops1))
        THEN transformInsert1(st)
        ELSE IF ops1 = <<>>
        THEN [st EXCEPT !.pc = "ComposeFirstTooShort"]
        ELSE IF ops2 = <<>>
        THEN [st EXCEPT !.pc = "ComposeFirstTooLong"]
        ELSE IF isRetain(Head(ops1)) /\ isRetain(Head(ops2))
        THEN transformRetainRetain(st)
        ELSE IF isDelete(Head(ops1)) /\ isDelete(Head(ops2))
        THEN transformDeleteDelete(st)
        ELSE IF isDelete(Head(ops1)) /\ isRetain(Head(ops2))
        THEN transformDeleteRetain(st)
        ELSE transformRetainDelete(st)

\* One iteration of the loop: the match arms in the order of the source.
transformStep(st) ==
    LET ops1 == st.ops1
        ops2 == st.ops2
    IN  IF ops1 = <<>> /\ ops2 = <<>>
        THEN [st EXCEPT !.pc = "done"]
        ELSE IF ops1 # <<>> /\ isInsert(Head(ops1))
        THEN transformInsert1(st)
        ELSE IF ops2 # <<>> /\ isInsert(Head(ops2))
        THEN transformInsert2(st)
        ELSE IF ops1 = <<>>
        THEN [st EXCEPT !.pc = "ComposeFirstTooShort"]
        ELSE IF ops2 = <<>>
        THEN [st EXCEPT !.pc = "ComposeFirstTooLong"]
        ELSE IF isRetain(Head(ops1)) /\ isRetain(Head(ops2))
        THEN transformRetainRetain(st)
        ELSE IF isDelete(Head(ops1)) /\ isDelete(Head(ops2))
        THEN transformDeleteDelete(st)
        ELSE IF isDelete(Head(ops1)) /\ isRetain(Head(ops2))
        THEN transformDeleteRetain(st)
        ELSE transformRetainDelete(st)

RECURSIVE transformLoop(_)
transformLoop(st) ==
    IF st.pc # "loop" THEN st ELSE transformLoop(transformStep(st))

\* Mutant of transform: the base lengths are compared with the result length
\* of the second operation.
transformComparesAfterLength(operation1, operation2) ==
    IF operation1.base_length # operation2.after_length
    THEN Err("TransformBaseDifferent")
    ELSE LET st == transformLoop([ops1 |-> operation1.ops,
                                  ops2 |-> operation2.ops,
                                  operation1prime |-> new,
                                  operation2prime |-> new,
                                  pc |-> "loop"])
         IN  IF st.pc = "done"
             THEN Ok(<<st.operation1prime, st.operation2prime>>)
             ELSE Err(st.pc)

\* Ok(<<operation1prime, operation2prime>>) or the error.
transform(operation1, operation2) ==
    IF operation1.base_length # operation2.base_length
    THEN Err("TransformBaseDifferent")
    ELSE LET st == transformLoop([ops1 |-> operation1.ops,
                                  ops2 |-> operation2.ops,
                                  operation1prime |-> new,
                                  operation2prime |-> new,
                                  pc |-> "loop"])
         IN  IF st.pc = "done"
             THEN Ok(<<st.operation1prime, st.operation2prime>>)
             ELSE Err(st.pc)

(* ------------------------------ state ---------------------------------- *)
None == [kind |-> "none"]

\* No compose / transform call is in progress.
NoWalk == [kind |-> "none"]

\* The reading of no builder call at all: nothing emitted, nothing consumed.
NoRaw == [buffer |-> <<>>, cursor |-> 0]

\* The builder calls stay inside the bound of the run.
Fits(op, max) == op.base_length <= max /\ op.after_length <= max

Init ==
    /\ base \in Strings(MaxLen)
    /\ opA = new
    /\ opB = new
    /\ res = None
    /\ walk = NoWalk
    /\ raw = NoRaw
    /\ overflow_checks = TRUE

\* Builder calls on the first operation.
RetainA(n, max) ==
    /\ res = None
    /\ Fits(retain(opA, n), max)
    /\ opA' = retain(opA, n)
    /\ UNCHANGED <<base, opB, res, walk, raw, overflow_checks>>

InsertA(str, max) ==
    /\ res = None
    /\ Fits(insert(opA, str), max)
    /\ opA' = insert(opA, str)
    /\ UNCHANGED <<base, opB, res, walk, raw, overflow_checks>>

DeleteA(n, max) ==
    /\ res = None
    /\ Fits(delete(opA, n), max)
    /\ opA' = delete(opA, n)
    /\ UNCHANGED <<base, opB, res, walk, raw, overflow_checks>>

\* Builder calls on the second operation.
RetainB(n, max) ==
    /\ res = None
    /\ Fits(retain(opB, n), max)
    /\ opB' = retain(opB, n)
    /\ UNCHANGED <<base, opA, res, walk, raw, overflow_checks>>

InsertB(str, max) ==
    /\ res = None
    /\ Fits(insert(opB, str), max)
    /\ opB' = insert(opB, str)
    /\ UNCHANGED <<base, opA, res, walk, raw, overflow_checks>>

DeleteB(n, max) ==
    /\ res = None
    /\ Fits(delete(opB, n), max)
    /\ opB' = delete(opB, n)
    /\ UNCHANGED <<base, opA, res, walk, raw, overflow_checks>>

Apply ==
    /\ res = None
    /\ res' = [kind |-> "apply", val |-> apply(opA, base)]
    /\ UNCHANGED <<base, opA, opB, walk, raw, overflow_checks>>

Invert ==
    /\ res = None
    /\ res' = [kind |-> "invert", val |-> invert(opA, base)]
    /\ UNCHANGED <<base, opA, opB, walk, raw, overflow_checks>>

Compose ==
    /\ res = None
    /\ res' = [kind |-> "compose", val |-> compose(opA, opB)]
    /\ UNCHANGED <<base, opA, opB, walk, raw, overflow_checks>>

Transform ==
    /\ res = None
    /\ res' = [kind |-> "transform", val |-> transform(opA, opB)]
    /\ UNCHANGED <<base, opA, opB, walk, raw, overflow_checks>>

ShouldBeComposedWith ==
    /\ res = None
    /\ res' = [kind |-> "should_be_composed_with",
               val |-> should_be_composed_with(opA, opB)]
    /\ UNCHANGED <<base, opA, opB, walk, raw, overflow_checks>>

ShouldBeComposedWithInverted ==
    /\ res = None
    /\ res' = [kind |-> "should_be_composed_with_inverted",
               val |-> should_be_composed_with_inverted(opA, opB)]
    /\ UNCHANGED <<base, opA, opB, walk, raw, overflow_checks>>

\* invert called on the first operation with a base string of its base length.
InvertOn(str) ==
    /\ res = None
    /\ res' = [kind |-> "invert", val |-> invert(opA, str)]
    /\ UNCHANGED <<base, opA, opB, walk, raw, overflow_checks>>

\* One operation built against a base string, then applied or inverted.
Next ==
    \/ \E n \in 0..MaxLen : RetainA(n, MaxLen)
    \/ \E str \in Strings(MaxLen) : InsertA(str, MaxLen)
    \/ \E n \in 0..MaxLen : DeleteA(n, MaxLen)
    \/ Apply
    \/ Invert

Spec == Init /\ [][Next]_vars

\* Two operations built independently, then composed, transformed or compared.
InitPair ==
    /\ base = <<>>
    /\ opA = new
    /\ opB = new
    /\ res = None
    /\ walk = NoWalk
    /\ raw = NoRaw
    /\ overflow_checks = TRUE

NextPair ==
    \/ \E n \in 0..MaxPairLen : RetainA(n, MaxPairLen)
    \/ \E str \in Strings(MaxPairLen) : InsertA(str, MaxPairLen)
    \/ \E n \in 0..MaxPairLen : DeleteA(n, MaxPairLen)
    \/ \E n \in 0..MaxPairLen : RetainB(n, MaxPairLen)
    \/ \E str \in Strings(MaxPairLen) : InsertB(str, MaxPairLen)
    \/ \E n \in 0..MaxPairLen : DeleteB(n, MaxPairLen)
    \/ \E str \in StringsOfLen(opA.base_length) : InvertOn(str)
    \/ Compose
    \/ Transform
    \/ ShouldBeComposedWith
    \/ ShouldBeComposedWithInverted

SpecPair == InitPair /\ [][NextPair]_vars

(* ------------------- builder calls read one at a time ------------------- *)
\* retain(n), insert(s) and delete(n) called on the first operation while the
\* calls themselves are carried out on the base string: raw.buffer is the text
\* emitted so far, raw.cursor the code points of the base consumed so far.
CallRetain(n) ==
    /\ res = None
    /\ raw.cursor + n <= Len(base)
    /\ Fits(retain(opA, n), MaxLen)
    /\ opA' = retain(opA, n)
    /\ raw' = [buffer |-> raw.buffer \o SubSeq(base, raw.cursor + 1, raw.cursor + n),
               cursor |-> raw.cursor + n]
    /\ UNCHANGED <<base, opB, res, walk, overflow_checks>>

CallInsert(str) ==
    /\ res = None
    /\ Fits(insert(opA, str), MaxLen)
    /\ opA' = insert(opA, str)
    /\ raw' = [raw EXCEPT !.buffer = @ \o str]
    /\ UNCHANGED <<base, opB, res, walk, overflow_checks>>

CallDelete(n) ==
    /\ res = None
    /\ raw.cursor + n <= Len(base)
    /\ Fits(delete(opA, n), MaxLen)
    /\ opA' = delete(opA, n)
    /\ raw' = [raw EXCEPT !.cursor = @ + n]
    /\ UNCHANGED <<base, opB, res, walk, overflow_checks>>

NextRaw ==
    \/ \E n \in 0..MaxLen : CallRetain(n)
    \/ \E str \in Strings(MaxLen) : CallInsert(str)
    \/ \E n \in 0..MaxLen : CallDelete(n)
    \/ Apply

SpecRaw == Init /\ [][NextRaw]_vars

(* --------------------- compose / transform step by step ----------------- *)
\* The call has passed its length check and is inside its loop.
Running == [ok |-> FALSE, err |-> "running"]

BeginCompose ==
    /\ res = None
    /\ IF opA.after_length # opB.base_length
       THEN /\ res' = [kind |-> "compose", val |-> Err("ComposeLengthDifferent")]
            /\ UNCHANGED walk
       ELSE /\ res' = [kind |-> "compose", val |-> Running]
            /\ walk' = [kind |-> "compose",
                        st |-> [ops1 |-> opA.ops, ops2 |-> opB.ops,
                                composed |-> new, pc |-> "loop"]]
    /\ UNCHANGED <<base, opA, opB, raw, overflow_checks>>

\* One iteration of the loop of compose; the iteration that leaves the loop
\* returns.
ComposeIter ==
    /\ walk.kind = "compose"
    /\ walk.st.pc = "loop"
    /\ LET st == composeStep(walk.st)
       IN  /\ walk' = [walk EXCEPT !.st = st]
           /\ res' = IF st.pc = "loop" THEN res
                     ELSE IF st.pc = "done"
                     THEN [kind |-> "compose", val |-> Ok(st.composed)]
                     ELSE [kind |-> "compose", val |-> Err(st.pc)]
    /\ UNCHANGED <<base, opA, opB, raw, overflow_checks>>

BeginTransform ==
    /\ res = None
    /\ IF opA.base_length # opB.base_length
       THEN /\ res' = [kind |-> "transform", val |-> Err("TransformBaseDifferent")]
            /\ UNCHANGED walk
       ELSE /\ res' = [kind |-> "transform", val |-> Running]
            /\ walk' = [kind |-> "transform",
                        st |-> [ops1 |-> opA.ops, ops2 |-> opB.ops,
                                operation1prime |-> new,
                                operation2prime |-> new,
                                pc |-> "loop"]]
    /\ UNCHANGED <<base, opA, opB, raw, overflow_checks>>

\* One iteration of the loop of transform.
TransformIter ==
    /\ walk.kind = "transform"
    /\ walk.st.pc = "loop"
    /\ LET st == transformStep(walk.st)
       IN  /\ walk' = [walk EXCEPT !.st = st]
           /\ res' = IF st.pc = "loop" THEN res
                     ELSE IF st.pc = "done"
                     THEN [kind |-> "transform",
                           val |-> Ok(<<st.operation1prime, st.operation2prime>>)]
                     ELSE [kind |-> "transform", val |-> Err(st.pc)]
    /\ UNCHANGED <<base, opA, opB, raw, overflow_checks>>

NextWalk ==
    \/ \E n \in 0..MaxPairLen : RetainA(n, MaxPairLen)
    \/ \E str \in Strings(MaxPairLen) : InsertA(str, MaxPairLen)
    \/ \E n \in 0..MaxPairLen : DeleteA(n, MaxPairLen)
    \/ \E n \in 0..MaxPairLen : RetainB(n, MaxPairLen)
    \/ \E str \in Strings(MaxPairLen) : InsertB(str, MaxPairLen)
    \/ \E n \in 0..MaxPairLen : DeleteB(n, MaxPairLen)
    \/ BeginCompose
    \/ ComposeIter
    \/ BeginTransform
    \/ TransformIter

\* A call that has entered its loop keeps running: the loop is sequential code
\* and nothing can preempt it for ever.
SpecWalk ==
    /\ InitPair
    /\ [][NextWalk]_vars
    /\ WF_vars(ComposeIter)
    /\ WF_vars(TransformIter)

(* ------------------ builder calls with machine integers ----------------- *)
\* Longest base string of the runs with machine integers.
MaxWordBase == 1

\* The counts handed to retain and delete: nothing, one, and the largest usize.
WordInputs == {0, 1, UsizeMax}

\* self.base_length += n, self.after_length += n or *last_n += n overflows.
retainOverflows(self, n) ==
    /\ n # 0
    /\ \/ overflows(self.base_length, n)
       \/ overflows(self.after_length, n)
       \/ self.ops # <<>> /\ isRetain(last(self.ops))
                          /\ overflows(last(self.ops).n, n)

\* self.after_length += str.chars().count() overflows.
insertOverflows(self, str) ==
    str # <<>> /\ overflows(self.after_length, Len(str))

\* self.base_length += n or *last_n += n overflows.
deleteOverflows(self, n) ==
    /\ n # 0
    /\ \/ overflows(self.base_length, n)
       \/ self.ops # <<>> /\ isDelete(last(self.ops))
                          /\ overflows(last(self.ops).n, n)

\* The operation stays small enough to enumerate.
Small(op) ==
    /\ Len(op.ops) <= MaxAtoms
    /\ \A i \in 1..Len(op.ops) :
          isInsert(op.ops[i]) => Len(op.ops[i].s) <= MaxWordBase

InitWord ==
    /\ base \in Strings(MaxWordBase)
    /\ opA = new
    /\ opB = new
    /\ res = None
    /\ walk = NoWalk
    /\ raw = NoRaw
    /\ overflow_checks \in BOOLEAN

RetainWord(n) ==
    /\ res = None
    /\ Small(retain(opA, n))
    /\ IF overflow_checks /\ retainOverflows(opA, n)
       THEN res' = [kind |-> "retain", val |-> Panic] /\ UNCHANGED opA
       ELSE opA' = retain(opA, n) /\ UNCHANGED res
    /\ UNCHANGED <<base, opB, walk, raw, overflow_checks>>

InsertWord(str) ==
    /\ res = None
    /\ Small(insert(opA, str))
    /\ IF overflow_checks /\ insertOverflows(opA, str)
       THEN res' = [kind |-> "insert", val |-> Panic] /\ UNCHANGED opA
       ELSE opA' = insert(opA, str) /\ UNCHANGED res
    /\ UNCHANGED <<base, opB, walk, raw, overflow_checks>>

DeleteWord(n) ==
    /\ res = None
    /\ Small(delete(opA, n))
    /\ IF overflow_checks /\ deleteOverflows(opA, n)
       THEN res' = [kind |-> "delete", val |-> Panic] /\ UNCHANGED opA
       ELSE opA' = delete(opA, n) /\ UNCHANGED res
    /\ UNCHANGED <<base, opB, walk, raw, overflow_checks>>

NextWord ==
    \/ \E n \in WordInputs : RetainWord(n)
    \/ \E str \in Strings(MaxWordBase) : InsertWord(str)
    \/ \E n \in WordInputs : DeleteWord(n)
    \/ Apply
    \/ Invert

SpecWord == InitWord /\ [][NextWord]_vars

(* ======================= properties of one operation ==================== *)
\* Code points an atom consumes from the base / produces in the result.
BaseCount(op) == IF isInsert(op) THEN 0 ELSE op.n

AfterCount(op) == IF isRetain(op) THEN op.n ELSE IF isInsert(op) THEN Len(op.s) ELSE 0

RECURSIVE SumBase(_)
SumBase(ops) == IF ops = <<>> THEN 0 ELSE BaseCount(Head(ops)) + SumBase(Tail(ops))

RECURSIVE SumAfter(_)
SumAfter(ops) == IF ops = <<>> THEN 0 ELSE AfterCount(Head(ops)) + SumAfter(Tail(ops))

NoEmptyAtom(ops) ==
    \A i \in 1..Len(ops) :
        IF isInsert(ops[i]) THEN ops[i].s # <<>> ELSE ops[i].n # 0

NoAdjacentSameVariant(ops) ==
    \A i \in 1..Len(ops) - 1 : ops[i].t # ops[i + 1].t

NoDeleteThenInsert(ops) ==
    \A i \in 1..Len(ops) - 1 : ~(isDelete(ops[i]) /\ isInsert(ops[i + 1]))

NormalForm(ops) ==
    NoEmptyAtom(ops) /\ NoAdjacentSameVariant(ops) /\ NoDeleteThenInsert(ops)

HasAtom(self, t) == \E i \in 1..Len(self.ops) : self.ops[i].t = t

\* C4: inverting a built operation against its base succeeds, and applying the
\* inverse to the result of the operation gives the base string back.
InvertRoundTrip ==
    res.kind = "invert" /\ Len(base) = opA.base_length =>
        /\ res.val.ok
        /\ apply(opA, base).ok
        /\ apply(res.val.val, apply(opA, base).val) = Ok(base)

InvertRoundTripWitness ==
    /\ res.kind = "invert"
    /\ res.val.ok
    /\ HasAtom(opA, "Retain") /\ HasAtom(opA, "Insert") /\ HasAtom(opA, "Delete")
    /\ apply(res.val.val, apply(opA, base).val) = Ok(base)

\* C5: applying a built operation to a string of base_length code points
\* succeeds and yields a string of after_length code points.
ApplyWellTyped ==
    res.kind = "apply" /\ Len(base) = opA.base_length =>
        /\ res.val.ok
        /\ Len(res.val.val) = opA.after_length

ApplyWellTypedWitness ==
    /\ res.kind = "apply"
    /\ res.val.ok
    /\ HasAtom(opA, "Retain") /\ HasAtom(opA, "Insert") /\ HasAtom(opA, "Delete")
    /\ Len(res.val.val) = opA.after_length
    /\ opA.after_length # opA.base_length

\* C6: after any sequence of builder calls the atoms are in normal form: no
\* empty atom, no two adjacent atoms of one variant, no Delete directly
\* followed by an Insert.
BuilderNormalForm == NormalForm(opA.ops)

\* An insert that arrived after a delete stands before it.
BuilderNormalFormWitness ==
    /\ res = None
    /\ Len(opA.ops) = 3
    /\ isRetain(opA.ops[1]) /\ isInsert(opA.ops[2]) /\ isDelete(opA.ops[3])
    /\ Len(opA.ops[2].s) = 2 /\ opA.ops[3].n = 2

\* C7: after any sequence of builder calls base_length is the sum of the
\* Retain and Delete counts and after_length the sum of the Retain counts and
\* the Insert lengths.
BuilderLengthsAgree ==
    /\ opA.base_length = SumBase(opA.ops)
    /\ opA.after_length = SumAfter(opA.ops)

BuilderLengthsAgreeWitness ==
    /\ res = None
    /\ HasAtom(opA, "Retain") /\ HasAtom(opA, "Insert") /\ HasAtom(opA, "Delete")
    /\ opA.base_length = 3 /\ opA.after_length = 2

(* ======================= properties of two operations =================== *)
\* Base code points before atom i of ops.
BaseBefore(ops, i) == SumBase(SubSeq(ops, 1, i - 1))

\* Inserted code points before atom i of ops.
InsertedBefore(ops, i) ==
    SumAfter(SubSeq(ops, 1, i - 1))
        - SumBase(SelectSeq(SubSeq(ops, 1, i - 1), isRetain))

\* The base positions an operation deletes.
DeletedPositions(self) ==
    {q \in 1..self.base_length :
        \E i \in 1..Len(self.ops) :
            /\ isDelete(self.ops[i])
            /\ BaseBefore(self.ops, i) < q
            /\ q <= BaseBefore(self.ops, i) + self.ops[i].n}

\* The document both sites reach: A, then B transformed against A.
Converged(A, B, primes, s) == apply(primes[2], apply(A, s).val)

\* C1: when transform succeeds on two built operations over the same base,
\* applying A then B' and applying B then A' both succeed on every base
\* string and give the same document.
TransformConvergesOnDocuments ==
    res.kind = "transform" /\ res.val.ok =>
        \A s \in StringsOfLen(opA.base_length) :
            LET afterA == apply(opA, s)
                afterB == apply(opB, s)
            IN  /\ afterA.ok /\ afterB.ok
                /\ apply(res.val.val[2], afterA.val).ok
                /\ apply(res.val.val[1], afterB.val).ok
                /\ apply(res.val.val[2], afterA.val)
                       = apply(res.val.val[1], afterB.val)

TransformConvergesOnDocumentsWitness ==
    /\ res.kind = "transform"
    /\ res.val.ok
    /\ opA.base_length = 2
    /\ HasAtom(opA, "Insert") /\ HasAtom(opA, "Delete")
    /\ HasAtom(opB, "Insert") /\ HasAtom(opB, "Delete") /\ HasAtom(opB, "Retain")
    /\ apply(res.val.val[2], apply(opA, <<"a", "b">>).val)
           = apply(res.val.val[1], apply(opB, <<"a", "b">>).val)

\* C2: when transform succeeds, A composed with B' and B composed with A'
\* both succeed and are structurally equal operations.
TransformConvergesOnOperations ==
    res.kind = "transform" /\ res.val.ok =>
        LET ab_prime == compose(opA, res.val.val[2])
            ba_prime == compose(opB, res.val.val[1])
        IN  /\ ab_prime.ok
            /\ ba_prime.ok
            /\ eq(ab_prime.val, ba_prime.val)

TransformConvergesOnOperationsWitness ==
    /\ res.kind = "transform"
    /\ res.val.ok
    /\ HasAtom(opA, "Insert") /\ HasAtom(opA, "Delete")
    /\ HasAtom(opB, "Insert") /\ HasAtom(opB, "Delete")
    /\ opA # opB
    /\ eq(compose(opA, res.val.val[2]).val, compose(opB, res.val.val[1]).val)

\* C3: when B is built over the result of A, compose succeeds and applying
\* the composed operation to any base string equals applying A and then B.
ComposeCorrect ==
    res.kind = "compose" =>
        \A s \in StringsOfLen(opA.base_length) :
            LET afterA == apply(opA, s)
            IN  afterA.ok /\ opB.base_length = Len(afterA.val) =>
                    /\ res.val.ok
                    /\ apply(opB, afterA.val).ok
                    /\ apply(res.val.val, s) = apply(opB, afterA.val)

ComposeCorrectWitness ==
    /\ res.kind = "compose"
    /\ res.val.ok
    /\ opA.base_length = 2
    /\ HasAtom(opA, "Insert") /\ HasAtom(opA, "Retain")
    /\ HasAtom(opB, "Insert") /\ HasAtom(opB, "Delete")
    /\ apply(res.val.val, <<"a", "b">>)
           = apply(opB, apply(opA, <<"a", "b">>).val)

\* C8: for consecutive built operations A and B, should_be_composed_with(A, B)
\* equals should_be_composed_with_inverted(invert(B), invert(A)).
HeuristicDuality ==
    res.kind = "should_be_composed_with" =>
        \A s \in StringsOfLen(opA.base_length) :
            LET afterA == apply(opA, s)
            IN  afterA.ok /\ opB.base_length = Len(afterA.val) =>
                    res.val = should_be_composed_with_inverted(
                                  invert(opB, afterA.val).val,
                                  invert(opA, s).val)

\* C9: when A and B insert at the same base position, the converged document
\* of transform(A, B) holds A's text directly before B's text, and the
\* converged document of transform(B, A) holds B's text directly before A's.
TransformTieBreak ==
    res.kind = "transform" /\ res.val.ok =>
        \A s \in StringsOfLen(opA.base_length) :
        \A i \in 1..Len(opA.ops) :
        \A j \in 1..Len(opB.ops) :
            /\ isInsert(opA.ops[i])
            /\ isInsert(opB.ops[j])
            /\ BaseBefore(opA.ops, i) = BaseBefore(opB.ops, j)
            => LET x == opA.ops[i].s
                   y == opB.ops[j].s
                   p == BaseBefore(opA.ops, i)
                   k == InsertedBefore(opA.ops, i) + InsertedBefore(opB.ops, j)
                          + Cardinality((1..p) \ (DeletedPositions(opA)
                                                  \cup DeletedPositions(opB)))
                   doc == Converged(opA, opB, res.val.val, s)
                   swapped == transform(opB, opA)
                   docSwapped == Converged(opB, opA, swapped.val, s)
               IN  /\ doc.ok
                   /\ Len(doc.val) >= k + Len(x) + Len(y)
                   /\ SubSeq(doc.val, k + 1, k + Len(x) + Len(y)) = x \o y
                   /\ swapped.ok
                   /\ docSwapped.ok
                   /\ Len(docSwapped.val) >= k + Len(x) + Len(y)
                   /\ SubSeq(docSwapped.val, k + 1, k + Len(x) + Len(y)) = y \o x

TransformTieBreakWitness ==
    /\ res.kind = "transform"
    /\ res.val.ok
    /\ opA = delete(insert(new, <<"a">>), 1)
    /\ opB = retain(insert(new, <<"b">>), 1)
    /\ Converged(opA, opB, res.val.val, <<"b">>) = Ok(<<"a", "b">>)
    /\ Converged(opB, opA, transform(opB, opA).val, <<"b">>) = Ok(<<"b", "a">>)

\* C10: when transform succeeds, A' has the base length B leaves behind and
\* B' the base length A leaves behind.
TransformResultLengths ==
    res.kind = "transform" /\ res.val.ok =>
        /\ res.val.val[1].base_length = opB.after_length
        /\ res.val.val[2].base_length = opA.after_length

TransformResultLengthsWitness ==
    /\ res.kind = "transform"
    /\ res.val.ok
    /\ opA.after_length # opA.base_length
    /\ opB.after_length # opB.base_length
    /\ opA.after_length # opB.after_length
    /\ res.val.val[1].base_length = opB.after_length

\* The identity on a base of n code points: retain(n), the empty operation
\* when n = 0.
Identity(n) == retain(new, n)

\* C11 as stated: transform(I, B) is the pair (B, identity on B's result).
TransformIdentityAsStated ==
    res.kind = "transform" /\ opA = Identity(opB.base_length) =>
        /\ res.val.ok
        /\ eq(res.val.val[1], opB)
        /\ eq(res.val.val[2], Identity(opB.after_length))

\* C11 amended: transform(I, B) is the pair (identity on B's result, B): the
\* first component is the identity transformed, the second is B unchanged.
TransformIdentity ==
    res.kind = "transform" /\ opA = Identity(opB.base_length) =>
        /\ res.val.ok
        /\ eq(res.val.val[1], Identity(opB.after_length))
        /\ eq(res.val.val[2], opB)

TransformIdentityWitness ==
    /\ res.kind = "transform"
    /\ opA = Identity(2)
    /\ HasAtom(opB, "Retain") /\ HasAtom(opB, "Insert") /\ HasAtom(opB, "Delete")
    /\ res.val.ok
    /\ res.val.val[1] # res.val.val[2]
    /\ eq(res.val.val[2], opB)

\* C13: compose returns an error exactly when the result length of the first
\* operation differs from the base length of the second, and the error is
\* SecondBaseLengthNotEqualFirstAfterLength.
ComposeErrorContract ==
    res.kind = "compose" =>
        /\ res.val.ok <=> opA.after_length = opB.base_length
        /\ ~res.val.ok =>
               res.val.err = "SecondBaseLengthNotEqualFirstAfterLength"

ComposeErrorContractWitness ==
    /\ res.kind = "compose"
    /\ ~res.val.ok
    /\ opA.ops # <<>> /\ opB.ops # <<>>
    /\ opA.base_length = opB.base_length
    /\ res.val.err = "SecondBaseLengthNotEqualFirstAfterLength"

\* C14: transform returns an error exactly when the base lengths differ, and
\* the error is TransformBaseDifferent.
TransformErrorContract ==
    res.kind = "transform" =>
        /\ res.val.ok <=> opA.base_length = opB.base_length
        /\ ~res.val.ok => res.val.err = "TransformBaseDifferent"

TransformErrorContractWitness ==
    /\ res.kind = "transform"
    /\ ~res.val.ok
    /\ opA.ops # <<>> /\ opB.ops # <<>>
    /\ opA.after_length = opB.after_length
    /\ res.val.err = "TransformBaseDifferent"

\* The decision rule of should_be_composed_with, read off the shapes.
NoOp(self) == self.ops = <<>> \/ (Len(self.ops) = 1 /\ isRetain(self.ops[1]))

\* The atoms of an operation that are not a leading or trailing Retain.
Significant(self) ==
    LET ops == self.ops
        from == IF ops # <<>> /\ isRetain(ops[1]) /\ Len(ops) > 1 THEN 2 ELSE 1
        to == IF Len(ops) > from /\ isRetain(ops[Len(ops)])
              THEN Len(ops) - 1 ELSE Len(ops)
    IN  SubSeq(ops, from, to)

Simple(self) == Len(Significant(self)) = 1

LeadingRetain(self) ==
    IF self.ops # <<>> /\ self.ops[1].t = "Retain" THEN self.ops[1].n ELSE 0

DecisionRule(A, B) ==
    IF NoOp(A) \/ NoOp(B) THEN TRUE
    ELSE IF ~Simple(A) \/ ~Simple(B) THEN FALSE
    ELSE LET a == Significant(A)[1]
             b == Significant(B)[1]
         IN  IF a.t = "Insert" /\ b.t = "Insert"
             THEN LeadingRetain(A) + Len(a.s) = LeadingRetain(B)
             ELSE IF a.t = "Delete" /\ b.t = "Delete"
             THEN \/ LeadingRetain(B) + b.n = LeadingRetain(A)
                  \/ LeadingRetain(A) = LeadingRetain(B)
             ELSE FALSE

ApplyInvertErrorContract ==
    res.kind \in {"apply", "invert"} =>
        /\ res.val.ok <=> Len(base) = opA.base_length
        /\ ~res.val.ok => res.val.err = "OperationApplyStringNotCompatible"

ApplyInvertErrorContractWitness ==
    /\ res.kind = "apply"
    /\ ~res.val.ok
    /\ Len(base) > opA.base_length
    /\ HasAtom(opA, "Retain") /\ HasAtom(opA, "Delete")
    /\ res.val.err = "OperationApplyStringNotCompatible"

\* An operation in normal form whose counters are the sums of its atoms.
WellFormed(self) ==
    /\ NormalForm(self.ops)
    /\ self.base_length = SumBase(self.ops)
    /\ self.after_length = SumAfter(self.ops)

\* C16: every operation invert, compose or transform returns on built
\* operations is in normal form and has counters equal to the sums of its
\* atoms.
AlgebraicOutputsWellFormed ==
    /\ res.kind \in {"invert", "compose"} /\ res.val.ok =>
           WellFormed(res.val.val)
    /\ res.kind = "transform" /\ res.val.ok =>
           WellFormed(res.val.val[1]) /\ WellFormed(res.val.val[2])

\* A transform whose first output coalesces the Retain for the text the second
\* operation inserts with the Retain both operations share.
AlgebraicOutputsWellFormedWitness ==
    /\ res.kind = "transform"
    /\ res.val.ok
    /\ opA = retain(new, 2)
    /\ opB = delete(insert(retain(new, 1), <<"a">>), 1)
    /\ res.val.val[1] = retain(new, 2)
    /\ WellFormed(res.val.val[2])

\* C20: inverting the inverse against the result string gives the operation
\* back, structurally.
InvertInvolution ==
    res.kind = "invert" /\ res.val.ok =>
        LET after == apply(opA, base)
            back == invert(res.val.val, after.val)
        IN  /\ after.ok
            /\ back.ok
            /\ eq(back.val, opA)

InvertInvolutionWitness ==
    /\ res.kind = "invert"
    /\ res.val.ok
    /\ Len(opA.ops) = 3
    /\ isRetain(opA.ops[1]) /\ isInsert(opA.ops[2]) /\ isDelete(opA.ops[3])
    /\ res.val.val # opA
    /\ eq(invert(res.val.val, apply(opA, base).val).val, opA)

\* C15: no call ends in a panic: the builder calls with any machine integer,
\* and apply and invert on the operations they build with any base string,
\* return a value or an error value.
NeverPanics ==
    res.kind # "none" => (res.val.ok \/ res.val.err # "panic")

\* The remaining length of a head atom.
AtomLen(op) == IF isInsert(op) THEN Len(op.s) ELSE op.n

\* From loop state s to loop state t a stream has moved to its next atom, or
\* the head atom of a stream has become shorter.
Advances(s, t) ==
    \/ Len(t.ops1) < Len(s.ops1)
    \/ Len(t.ops2) < Len(s.ops2)
    \/ /\ s.ops1 # <<>> /\ t.ops1 # <<>>
       /\ Tail(t.ops1) = Tail(s.ops1)
       /\ AtomLen(Head(t.ops1)) < AtomLen(Head(s.ops1))
    \/ /\ s.ops2 # <<>> /\ t.ops2 # <<>>
       /\ Tail(t.ops2) = Tail(s.ops2)
       /\ AtomLen(Head(t.ops2)) < AtomLen(Head(s.ops2))

\* The loop has left through its break with both streams exhausted, and the
\* call has returned.
Returned ==
    /\ walk.kind # "none"
    /\ walk.st.pc = "done"
    /\ walk.st.ops1 = <<>> /\ walk.st.ops2 = <<>>
    /\ res.val.ok

\* C18: a compose or transform call that has passed its length check reaches
\* the state in which both atom streams are exhausted and returns, and every
\* iteration that stays in the loop moves a stream to its next atom or
\* shortens a head atom.
WalksTerminate ==
    /\ [][walk.kind # "none" /\ walk'.st.pc = "loop" =>
             Advances(walk.st, walk'.st)]_vars
    /\ (walk.kind # "none") ~> Returned

\* A compose that has returned after an iteration that only shortened the
\* head of the first stream without exhausting either.
WalksTerminateWitness ==
    /\ Returned
    /\ walk.kind = "compose"
    /\ opA = retain(new, 2)
    /\ opB = retain(delete(new, 1), 1)
    /\ res.val.val = retain(delete(new, 1), 1)

\* C19: applying the built operation to a base string the calls consume
\* entirely gives the text the calls emit when they are carried out one at a
\* time.
BuilderPreservesMeaning ==
    res.kind = "apply" /\ raw.cursor = Len(base) =>
        res.val = Ok(raw.buffer)

\* Calls that were coalesced and reordered: an Insert called after a Delete
\* and merged into the Insert before it.
BuilderPreservesMeaningWitness ==
    /\ res.kind = "apply"
    /\ raw.cursor = Len(base)
    /\ base = <<"a", "b">>
    /\ opA = retain(insert(delete(insert(new, <<"a">>), 1), <<"b">>), 1)
    /\ opA.ops = <<Insert(<<"a", "b">>), Delete(1), Retain(1)>>
    /\ res.val = Ok(<<"a", "b", "b">>)

====
